---- MODULE Spec2Model ----
(***************************************************************************)
(* A model of multilib/multilibify.py: the deep merge of two documents,    *)
(* the recursive expansion of a manifest's modules into one copy per       *)
(* variant, and the filter that drops cleanup rules.                       *)
(*                                                                         *)
(* Python values are tagged records [k, v]: a str is a sequence of atoms   *)
(* (path components for file names and source paths, "/" and words for     *)
(* cleanup rules, tokens for module names), a list is a sequence of        *)
(* values, a dict is a function from keys to values.                       *)
(***************************************************************************)
EXTENDS Naturals, Sequences, FiniteSets, TLC

VARIABLES pc, args, files, holder_object, variants, stack, exc, calls, base_dict, update_dict, merged_dict

vars == <<pc, args, files, holder_object, variants, stack, exc, calls, base_dict, update_dict, merged_dict>>

(***************************************************************************)
(* Python values.                                                          *)
(***************************************************************************)
Str(s) == [k |-> "str", v |-> s]
Bool(b) == [k |-> "bool", v |-> b]
List(s) == [k |-> "list", v |-> s]
Dict(f) == [k |-> "dict", v |-> f]
None == [k |-> "none", v |-> <<>>]

IsStr(x) == x.k = "str"
IsDict(x) == x.k = "dict"
IsList(x) == x.k = "list"

\* key in d
Has(d, key) == key \in DOMAIN d.v
\* d[key]
Get(d, key) == d.v[key]
\* d[key] = val
Put(d, key, val) == Dict([x \in (DOMAIN d.v) \cup {key} |-> IF x = key THEN val ELSE d.v[x]])
\* the dict left by d.pop(key, ...)
Del(d, key) == Dict([x \in (DOMAIN d.v) \ {key} |-> d.v[x]])
\* the value returned by d.pop(key, default)
Pop(d, key, default) == IF Has(d, key) THEN Get(d, key) ELSE default

\* Python's truth value of x
Truthy(x) ==
    CASE x.k = "bool" -> x.v
      [] x.k = "none" -> FALSE
      [] x.k = "str" -> x.v # <<>>
      [] x.k = "list" -> x.v # <<>>
      [] x.k = "dict" -> DOMAIN x.v # {}

MULTILIB_PROP == "x-multilib"

\* VARIANTS.items(), in declaration order; opts is the variant's dict
VARIANTS ==
    << [v |-> "native", opts |-> ("prop" :> "x-native-module")],
       [v |-> "compat", opts |-> ("prop" :> "x-compat32-module") @@ ("name-suffix" :> <<"-32bit">>)] >>

\* VARIANTS[v]
VariantOpts(v) == (CHOOSE e \in {VARIANTS[i] : i \in DOMAIN VARIANTS} : e.v = v).opts

\* VARIANTS[v].get("name-suffix", "")
NameSuffix(v) == IF "name-suffix" \in DOMAIN VariantOpts(v) THEN VariantOpts(v)["name-suffix"] ELSE <<>>

(***************************************************************************)
(* merge_dicts: a deep copy of base_dict, then one assignment per item of  *)
(* update_dict.  Values are immutable here, so the deep copy is the value  *)
(* itself; what the result shares with update_dict is tracked where the    *)
(* expansion mutates it (see multilibify).                                 *)
(***************************************************************************)
RECURSIVE merge_dicts(_, _)
RECURSIVE MergeItems(_, _, _)

\* MergedValue extending a sequence of the base instead of replacing it
MergedValue_Concatenating(merged, upd_key, upd_val) ==
    IF Has(merged, upd_key) /\ IsDict(Get(merged, upd_key)) /\ IsDict(upd_val)
    THEN merge_dicts(Get(merged, upd_key), upd_val)
    ELSE IF Has(merged, upd_key) /\ IsList(Get(merged, upd_key)) /\ IsList(upd_val)
         THEN List(Get(merged, upd_key).v \o upd_val.v)
         ELSE upd_val

\* lines 54-57: the value assigned to merged_dict[upd_key]
MergedValue(merged, upd_key, upd_val) ==
    IF Has(merged, upd_key) /\ IsDict(Get(merged, upd_key)) /\ IsDict(upd_val)
    THEN merge_dicts(Get(merged, upd_key), upd_val)
    ELSE upd_val

\* the loop over update_dict.items(), keys being those still to visit
MergeItems(merged, upd, keys) ==
    IF keys = {} THEN merged
    ELSE LET upd_key == CHOOSE x \in keys : TRUE
         IN MergeItems(Put(merged, upd_key, MergedValue(merged, upd_key, Get(upd, upd_key))),
                       upd, keys \ {upd_key})

merge_dicts(base, upd) == MergeItems(base, upd, DOMAIN upd.v)

(***************************************************************************)
(* os.path on relative paths.  A path is its sequence of components:       *)
(* "sub/child.json" is <<"sub", "child.json">> and "" is <<>>.             *)
(***************************************************************************)
\* os.getcwd(), as the components of an absolute path
Cwd == <<"home", "build">>

\* os.path.dirname(p)
dirname(p) == SubSeq(p, 1, Len(p) - 1)

\* os.path.join(a, b), b relative
join(a, b) == a \o b

RECURSIVE NormComps(_, _)
\* posixpath.normpath of an absolute path: "." is dropped, ".." pops a
\* component and is dropped at the root
NormComps(comps, new_comps) ==
    IF comps = <<>> THEN new_comps
    ELSE LET c == Head(comps)
         IN IF c = "." THEN NormComps(Tail(comps), new_comps)
            ELSE IF c # ".." THEN NormComps(Tail(comps), Append(new_comps, c))
            ELSE IF new_comps # <<>> THEN NormComps(Tail(comps), SubSeq(new_comps, 1, Len(new_comps) - 1))
            ELSE NormComps(Tail(comps), new_comps)

\* os.path.abspath(p), p relative
abspath(p) == NormComps(join(Cwd, p), <<>>)

RECURSIVE CommonPrefixLen(_, _)
\* len(os.path.commonprefix([a, b])) on component lists
CommonPrefixLen(a, b) ==
    IF a = <<>> \/ b = <<>> \/ Head(a) # Head(b) THEN 0
    ELSE 1 + CommonPrefixLen(Tail(a), Tail(b))

\* os.path.relpath(path, start)
relpath(path, start) ==
    LET start_list == abspath(start)
        path_list == abspath(path)
        i == CommonPrefixLen(start_list, path_list)
        rel_list == [n \in 1..(Len(start_list) - i) |-> ".."] \o SubSeq(path_list, i + 1, Len(path_list))
    IN IF rel_list = <<>> THEN <<".">> ELSE rel_list

\* the rewritten value of source["path"] (lines 85-86)
RewritePath(path, module_file, base_dir) ==
    relpath(join(dirname(module_file), path), base_dir)

(***************************************************************************)
(* load_dict_file and save_dict_file.  files is the file system: a         *)
(* function from the absolute path of each file to the document it holds.  *)
(***************************************************************************)
\* the suffixes load_dict_file accepts (lines 32 and 34)
LoadSuffixes == {".yml", ".yml.in", ".yaml", "yaml.in", ".json", ".json.in"}

\* the suffixes save_dict_file accepts (lines 43 and 45)
SaveSuffixes == {".yml", ".yaml", ".json"}

\* whether file name `name` ends with `suffix`, for the file names of the model
EndsWith(name, suffix) ==
    <<name, suffix>> \in
        { <<"manifest.json", ".json">>, <<"child.json", ".json">>, <<"grand.json", ".json">>,
          <<"legacy.json", ".json">>, <<"vendor.json", ".json">>, <<"glu.json", ".json">>,
          <<"out.json", ".json">>,
          <<"compat.yaml", ".yaml">>, <<"out.yaml", ".yaml">>,
          <<"out.json.in", ".json.in">>, <<"out.json.in", ".in">> }

\* load_dict_file(dict_file): the document, or the exception raised
load_dict_file(dict_file) ==
    IF abspath(dict_file) \notin DOMAIN files THEN [exc |-> "FileNotFoundError", d |-> None]
    ELSE IF \A i \in LoadSuffixes : ~EndsWith(dict_file[Len(dict_file)], i)
         THEN [exc |-> "ValueError", d |-> None]
         ELSE [exc |-> "", d |-> files[abspath(dict_file)]]

\* save_dict_file(dict_data, dict_file): the exception raised, "" when none
save_dict_file(dict_data, dict_file) ==
    IF \A i \in SaveSuffixes : ~EndsWith(dict_file[Len(dict_file)], i) THEN "ValueError" ELSE ""

(***************************************************************************)
(* multilibify.  The documents are values, so what Python shares by        *)
(* reference is kept explicitly:                                           *)
(*  - store is the list of the variants' override documents, [v, props]    *)
(*    in declaration order; a call's variant_ids is the list of the indexes*)
(*    of its variants in store, since a recursive call receives the same   *)
(*    props object under {v: props};                                       *)
(*  - merge_dicts assigns update values uncopied (line 57), so when props  *)
(*    has a "modules" list, new_module["modules"] is that very list and    *)
(*    the recursive call rewrites paths and pops flags inside the modules  *)
(*    of props: `shared` is then the index of that variant (0 otherwise),  *)
(*    the loop reads props["modules"][i] from store and writes it back;    *)
(*  - such a module appended to the output unchanged is the shared object  *)
(*    itself: it is kept as Alias(j, i) and read from store at the end.    *)
(* The recursion runs one step at a time: stack holds one Frame for each   *)
(* call of multilibify in progress, the innermost last, with the position  *)
(* of its loops (i over orig_modules, n over variants.items(), n = 0       *)
(* outside the inner loop); calls records every call as it ends.           *)
(***************************************************************************)
\* the depth of multilibify calls at which Python raises RecursionError
RecursionLimit == 6

Alias(j, i) == [k |-> "alias", v |-> <<j, i>>]
IsAlias(x) == x.k = "alias"

\* props["modules"][i] of variant j
SharedModule(store, j, i) == Get(store[j].props, "modules").v[i]

\* the store after the in-place changes that leave m at props["modules"][i] of variant j
StoreModule(store, j, i, m) ==
    [store EXCEPT ![j].props = Put(@, "modules", List([Get(@, "modules").v EXCEPT ![i] = m]))]

RECURSIVE Resolve(_, _)
\* the document obj with every shared module read from store
Resolve(obj, store) ==
    IF IsAlias(obj) THEN SharedModule(store, obj.v[1], obj.v[2])
    ELSE IF IsDict(obj) /\ Has(obj, "modules") /\ IsList(Get(obj, "modules"))
         THEN Put(obj, "modules",
                  List([i \in DOMAIN Get(obj, "modules").v |-> Resolve(Get(obj, "modules").v[i], store)]))
         ELSE obj

\* lines 83-86: orig_module after the loop over its sources
RewriteSources(orig_module, module_file, base_dir) ==
    Put(orig_module, "sources",
        List([n \in DOMAIN Get(orig_module, "sources").v |->
                LET source == Get(orig_module, "sources").v[n]
                IN IF Has(source, "path")
                   THEN Put(source, "path", Str(RewritePath(Get(source, "path").v, module_file, base_dir)))
                   ELSE source]))

\* ModuleMultilib letting the holder-level value decide
ModuleMultilib_HolderDecides(orig_module, holder_multilib) == holder_multilib

\* line 88: the value of orig_module.pop(MULTILIB_PROP, holder_multilib)
ModuleMultilib(orig_module, holder_multilib) == Pop(orig_module, MULTILIB_PROP, holder_multilib)

\* NewName leaving the suffix out
NewName_Unsuffixed(orig_module, v) == Get(orig_module, "name")

\* line 94: the name of the copy of orig_module for variant v
NewName(orig_module, v) == Str(Get(orig_module, "name").v \o NameSuffix(v))

\* lines 93-94: new_module before the recursion
NewModule(orig_module, v, props) == Put(merge_dicts(orig_module, props), "name", NewName(orig_module, v))

\* whether merge_dicts(orig_module, props)["modules"] is props["modules"] itself (line 57)
SharesModules(orig_module, props) ==
    /\ Has(props, "modules")
    /\ ~(Has(orig_module, "modules") /\ IsDict(Get(orig_module, "modules")) /\ IsDict(Get(props, "modules")))

\* line 96: the variants passed to the call on the copy made for the variant at index j
NestedVariants(variant_ids, j) == <<j>>

\* lines 72-74: the frame of a call of multilibify, variants being resolved; holder is
\* the holder_object passed, entry the override documents as the call finds them
Frame(holder, holder_file, base_dir, variant_ids, shared, store) ==
    [holder |-> holder, holder_file |-> holder_file, holder_dir |-> dirname(holder_file),
     base_dir |-> base_dir, variants |-> variant_ids, shared |-> shared,
     entry |-> [n \in DOMAIN variant_ids |-> store[variant_ids[n]]],
     holder_multilib |-> Pop(holder, MULTILIB_PROP, Bool(TRUE)),
     i |-> 1, n |-> 0, module_file |-> <<>>, in_place |-> FALSE, orig_module |-> None,
     modules |-> <<>>]

\* the record in calls of the call with frame f
CallOf(f, depth, exc_, out) ==
    [depth |-> depth, holder |-> f.holder, holder_file |-> f.holder_file, base_dir |-> f.base_dir,
     variants |-> f.entry, exc |-> exc_, out |-> out]

\* the frame after the body of the loop over variants.items(): the next variant, or
\* the next module after the last variant
Advance(f) ==
    IF f.n = Len(f.variants) THEN [f EXCEPT !.i = @ + 1, !.n = 0] ELSE [f EXCEPT !.n = @ + 1]

\* line 97, or line 89: the frame after modules.append(module)
Appended(f, module) == [f EXCEPT !.modules = Append(@, module)]

\* a module is appended as it is when the variants are none
Decided_KeepsWithoutVariants(f, module, multilib) ==
    IF ~Truthy(multilib) \/ Len(f.variants) = 0 THEN [Appended(f, module) EXCEPT !.i = @ + 1]
    ELSE [f EXCEPT !.n = 1]

\* lines 88-92: the frame once the flag of the module is read: the module appended and
\* the loop continued, or the loop over the variants entered, which none leaves at once
Decided(f, module, multilib) ==
    IF ~Truthy(multilib) THEN [Appended(f, module) EXCEPT !.i = @ + 1]
    ELSE IF Len(f.variants) = 0 THEN [f EXCEPT !.i = @ + 1]
    ELSE [f EXCEPT !.n = 1]

RECURSIVE ExtractVariants(_, _, _)
\* lines 65-70: the loop over VARIANTS.items() of the outermost call, from the n-th on;
\* r holds the holder, the variants built so far and the exception raised
ExtractVariants(holder_dir, n, r) ==
    IF r.exc # "" \/ n > Len(VARIANTS) THEN r
    ELSE LET prop == VARIANTS[n].opts["prop"]
             val == Pop(r.holder, prop, Dict(<<>>))
             loaded == IF IsStr(val) THEN load_dict_file(join(holder_dir, val.v)) ELSE [exc |-> "", d |-> val]
         IN ExtractVariants(holder_dir, n + 1,
                            [holder |-> Del(r.holder, prop),
                             store |-> Append(r.store, [v |-> VARIANTS[n].v, props |-> loaded.d]),
                             exc |-> loaded.exc])

(***************************************************************************)
(* uncleanup.  A cleanup rule is a str whose atoms are "/" and the words   *)
(* between; a pattern is the same with ".+" for one or more atoms.  The    *)
(* words of the rules are chosen so that no pattern ends inside an atom.   *)
(***************************************************************************)
UNCLEANUP_PATTERNS ==
    << <<"/", "include">>,
       <<"/", "lib", "/", ".+", "/", "include">>,
       <<"/", "lib", "/", "pkgconfig">>,
       <<"/", "share", "/", "pkgconfig">>,
       <<"/", "share", "/", "aclocal">>,
       <<"/", "lib", "/", "cmake">> >>

RECURSIVE Match(_, _)
\* r.match(p): r matches a prefix of p
Match(r, p) ==
    IF r = <<>> THEN TRUE
    ELSE IF Head(r) = ".+" THEN \E n \in 1..Len(p) : Match(Tail(r), SubSeq(p, n + 1, Len(p)))
    ELSE p # <<>> /\ Head(p) = Head(r) /\ Match(Tail(r), Tail(p))

\* line 108: any(r.match(p) for r in uncleanup_regexps)
AnyMatch(p) == \E n \in DOMAIN UNCLEANUP_PATTERNS : Match(UNCLEANUP_PATTERNS[n], p.v)

\* lines 106-109: new_cleanup
NewCleanup(cleanup) == SelectSeq(cleanup, LAMBDA p : ~AnyMatch(p))

\* `key in s` for a str s (a substring test), for the file names of the model
InStr(key, s) == \E n \in DOMAIN s.v : <<key, s.v[n]>> \in {<<"modules", "shared-modules">>}

RECURSIVE uncleanup(_)
RECURSIVE UncleanupModules(_, _, _)

\* lines 112-113: the loop over holder_object["modules"], from the i-th on
UncleanupModules(modules, i, r) ==
    IF r.exc # "" \/ i > Len(modules) THEN r
    ELSE LET u == uncleanup(modules[i])
         IN UncleanupModules(modules, i + 1, [modules |-> Append(r.modules, u.obj), exc |-> u.exc])

\* lines 105-114: holder_object as the call leaves it, and the exception raised;
\* on a str, `in` succeeds on a substring and the subscript raises TypeError
uncleanup(holder) ==
    IF IsStr(holder)
    THEN [obj |-> holder,
          exc |-> IF InStr("cleanup", holder) \/ InStr("modules", holder) THEN "TypeError" ELSE ""]
    ELSE LET cleaned == IF Has(holder, "cleanup")
                        THEN Put(holder, "cleanup", List(NewCleanup(Get(holder, "cleanup").v)))
                        ELSE holder
         IN IF ~Has(cleaned, "modules") THEN [obj |-> cleaned, exc |-> ""]
            ELSE LET r == UncleanupModules(Get(cleaned, "modules").v, 1, [modules |-> <<>>, exc |-> ""])
                 IN [obj |-> Put(cleaned, "modules", List(r.modules)), exc |-> r.exc]

(***************************************************************************)
(* The manifests the program is run on.  d is the directory of the         *)
(* top-level manifest.  Every source with a path carries one more key,     *)
(* "file", which the program never reads: the absolute location of the     *)
(* file its path designates where the source is written.                   *)
(***************************************************************************)
\* the longest modules sequence of the top-level manifest
MaxModules == 2

Src(dir, path) ==
    Dict(("type" :> Str(<<"file">>)) @@ ("path" :> Str(path)) @@ ("file" :> Str(abspath(join(dir, path)))))

GitSrc == Dict(("type" :> Str(<<"git">>)) @@ ("url" :> Str(<<"https://example.org/x.git">>)))

BuildOptions(cflags, env) == Dict(("cflags" :> Str(<<cflags>>)) @@ ("env" :> Dict(env)))

Rule(atoms) == Str(atoms)

\* an inline module with nothing of its own to say about multilib
Foo(d) ==
    Dict(("name" :> Str(<<"foo">>))
         @@ ("sources" :> List(<<Src(d, <<"foo.c">>), GitSrc>>))
         @@ ("build-options" :> BuildOptions("-O2", ("CC" :> Str(<<"gcc">>)) @@ ("V" :> Str(<<"1">>))))
         @@ ("cleanup" :> List(<<Rule(<<"/", "include", "/", "x.h">>),
                                 Rule(<<"/", "usr", "/", "lib", "/", "foo.so">>),
                                 Rule(<<"/", "lib", "/", "cmake", "-extra", "/", "foo">>)>>)))

\* an inline module that asks for multilib itself
Baz(d) ==
    Dict(("name" :> Str(<<"baz">>))
         @@ (MULTILIB_PROP :> Bool(TRUE))
         @@ ("sources" :> List(<<Src(d, <<"..", "common", "baz.c">>)>>))
         @@ ("cleanup" :> List(<<Rule(<<"/", "share", "/", "aclocal">>), Rule(<<"*.la">>)>>)))

\* an inline module without sources
NoSources == Dict("name" :> Str(<<"nosources">>))

\* sub/deep/grand.json
Grand(dir) ==
    Dict(("name" :> Str(<<"grand">>))
         @@ ("sources" :> List(<<Src(dir, <<"..", "..", "common", "g.c">>)>>))
         @@ ("cleanup" :> List(<<Rule(<<"/", "lib", "/", "x86_64", "/", "include">>),
                                 Rule(<<"/", "lib", "/", "include">>),
                                 Rule(<<"/", "share", "/", "doc">>)>>)))

\* sub/child.json: two inline modules, one with a module file, the other opting out
\* and holding a module that asks for multilib
Child(dir) ==
    Dict(("name" :> Str(<<"child">>))
         @@ ("sources" :> List(<<Src(dir, <<"src.c">>)>>))
         @@ ("build-options" :> BuildOptions("-Os", "CC" :> Str(<<"clang">>)))
         @@ ("modules" :> List(<<
                Dict(("name" :> Str(<<"inner">>))
                     @@ ("sources" :> List(<<Src(dir, <<"in.c">>)>>))
                     @@ ("modules" :> List(<<Str(<<"deep", "grand.json">>)>>))),
                Dict(("name" :> Str(<<"quiet">>))
                     @@ (MULTILIB_PROP :> Bool(FALSE))
                     @@ ("sources" :> List(<<Src(dir, <<"q.c">>)>>))
                     @@ ("cleanup" :> List(<<Rule(<<"/", "usr", "/", "include">>),
                                             Rule(<<"/", "lib", "/", "pkgconfig", "/", "q.pc">>)>>))
                     @@ ("modules" :> List(<<
                            Dict(("name" :> Str(<<"kept">>))
                                 @@ (MULTILIB_PROP :> Bool(TRUE))
                                 @@ ("sources" :> List(<<Src(dir, <<"k.c">>)>>)))>>)))>>)))

\* sub/legacy.json: opts out, and holds an inline module and a module file
Legacy(dir) ==
    Dict(("name" :> Str(<<"legacy">>))
         @@ (MULTILIB_PROP :> Bool(FALSE))
         @@ ("sources" :> List(<<Src(dir, <<"l.c">>)>>))
         @@ ("cleanup" :> List(<<Rule(<<"/", "include", "/", "x.h">>), Rule(<<"/", "usr", "/", "lib", "/", "foo.so">>)>>))
         @@ ("modules" :> List(<<
                Dict(("name" :> Str(<<"held">>))
                     @@ (MULTILIB_PROP :> Bool(TRUE))
                     @@ ("sources" :> List(<<Src(dir, <<"h.c">>)>>))
                     @@ ("cleanup" :> List(<<Rule(<<"/", "share", "/", "pkgconfig">>), Rule(<<"/", "share", "/", "doc">>)>>))),
                Str(<<"deep", "grand.json">>)>>)))

\* sub/vendor.json: opts out, and holds a module file of a shared directory
Vendor(dir) ==
    Dict(("name" :> Str(<<"vendor">>))
         @@ (MULTILIB_PROP :> Bool(FALSE))
         @@ ("sources" :> List(<<>>))
         @@ ("modules" :> List(<<Str(<<"shared-modules", "glu.json">>)>>)))

\* sub/shared-modules/glu.json
Glu(dir) == Dict(("name" :> Str(<<"glu">>)) @@ ("sources" :> List(<<Src(dir, <<"glu.c">>)>>)))

\* overrides/compat.yaml
CompatFile ==
    Dict(("build-options" :> BuildOptions("-m32", "CC" :> Str(<<"gcc", "-m32">>)))
         @@ ("cleanup" :> List(<<Rule(<<"/", "include">>), Rule(<<"/", "bin">>)>>)))

\* an override document that brings modules of its own
Extra(d, flag) ==
    Dict(("name" :> Str(<<"extra">>)) @@ ("sources" :> List(<<Src(d, <<"x.c">>)>>)) @@ flag)

\* the files beside a top-level manifest in directory d
Tree(d) ==
    (abspath(d \o <<"sub", "child.json">>) :> Child(d \o <<"sub">>))
    @@ (abspath(d \o <<"sub", "deep", "grand.json">>) :> Grand(d \o <<"sub", "deep">>))
    @@ (abspath(d \o <<"sub", "legacy.json">>) :> Legacy(d \o <<"sub">>))
    @@ (abspath(d \o <<"sub", "vendor.json">>) :> Vendor(d \o <<"sub">>))
    @@ (abspath(d \o <<"sub", "shared-modules", "glu.json">>) :> Glu(d \o <<"sub", "shared-modules">>))
    @@ (abspath(d \o <<"overrides", "compat.yaml">>) :> CompatFile)

\* the entries a top-level modules sequence is made of
ModulePool(d) ==
    { Foo(d), Baz(d), NoSources,
      Str(<<"sub", "child.json">>), Str(<<"sub", "legacy.json">>), Str(<<"sub", "vendor.json">>) }

RECURSIVE SeqsUpTo(_, _)
\* the sequences over S of length n at most
SeqsUpTo(S, n) ==
    IF n = 0 THEN {<<>>}
    ELSE LET shorter == SeqsUpTo(S, n - 1)
         IN shorter \cup {Append(q, x) : q \in shorter, x \in S}

\* the variant properties of a top-level manifest: none, a document each (the second in
\* a file), and documents that hold modules
VariantProps(d) ==
    { <<>>,
      ("x-native-module" :> Dict(("build-options" :> BuildOptions("-O3", "V" :> Str(<<"0">>)))
                                 @@ ("name" :> Str(<<"tuned">>))))
        @@ ("x-compat32-module" :> Str(<<"overrides", "compat.yaml">>)),
      "x-compat32-module" :> Dict("modules" :> List(<<Extra(d, <<>>)>>)),
      "x-compat32-module" :> Dict((MULTILIB_PROP :> Bool(FALSE))
                                  @@ ("modules" :> List(<<Extra(d, <<>>)>>))),
      "x-compat32-module" :> Dict("modules" :> List(<<Extra(d, MULTILIB_PROP :> Bool(FALSE))>>)) }

\* the holder-level x-multilib of a top-level manifest
HolderFlags == { <<>>, MULTILIB_PROP :> Bool(TRUE), MULTILIB_PROP :> Bool(FALSE) }

\* the top-level manifests in directory d
Manifests(d) ==
    { Dict(("modules" :> List(modules))
           @@ ("cleanup" :> List(<<Rule(<<"/", "lib", "/", "cmake">>), Rule(<<"/", "share", "/", "doc">>)>>))
           @@ flag @@ props) :
        modules \in SeqsUpTo(ModulePool(d), MaxModules), flag \in HolderFlags, props \in VariantProps(d) }

\* the directories a top-level manifest is run from
ManifestDirs == { <<>>, <<"app">> }

\* the variants a direct call of multilibify passes
DirectVariants ==
    { <<>>,
      << [v |-> "compat", props |-> CompatFile] >> }

\* the target_manifest arguments
Targets == { <<"out.json">>, <<"out.yaml">>, <<"out.json.in">> }

(***************************************************************************)
(* The documents merge_dicts is applied to on its own.                     *)
(***************************************************************************)
\* the deepest nesting of mappings in those documents
MaxNesting == 2

Leaves == { Str(<<"1">>), List(<<Str(<<"1">>)>>), List(<<Str(<<"2">>)>>) }

\* the dicts with keys among `keys` and values among `values`
DictsOver(keys, values) == { Dict(f) : f \in UNION { [K -> values] : K \in SUBSET keys } }

RECURSIVE Nested(_)
\* the dicts under key "c", nested n deep at most
Nested(n) == IF n = 0 THEN {} ELSE DictsOver({"c"}, Leaves \cup Nested(n - 1))

Documents == DictsOver({"a", "b"}, Leaves \cup Nested(MaxNesting - 1))

(***************************************************************************)
(* main(): load, multilibify, uncleanup when -u is given, save.            *)
(* multilibify and merge_dicts are also called on their own.               *)
(***************************************************************************)
Idle == /\ base_dict = None /\ update_dict = None /\ merged_dict = None

Init ==
    /\ pc = "start"
    /\ \E d \in ManifestDirs : \E manifest \in Manifests(d) :
          /\ args = [source_manifest |-> d \o <<"manifest.json">>]
          /\ files = Tree(d) @@ (abspath(d \o <<"manifest.json">>) :> manifest)
    /\ holder_object = None
    /\ variants = <<>>
    /\ stack = <<>>
    /\ exc = ""
    /\ calls = <<>>
    /\ Idle

\* line 122
Load ==
    /\ pc = "start"
    /\ LET r == load_dict_file(args.source_manifest)
       IN /\ holder_object' = r.d
          /\ exc' = r.exc
          /\ pc' = IF r.exc = "" THEN "loaded" ELSE "failed"
    /\ UNCHANGED <<args, files, variants, stack, calls, base_dict, update_dict, merged_dict>>

\* the frame multilibify is running in, and its depth
Top == stack[Len(stack)]

\* the calls made so far and those an exception ends, innermost first
Unwound(exc_) == calls \o [n \in 1..Len(stack) |-> CallOf(stack[Len(stack) + 1 - n], Len(stack) + 1 - n, exc_, None)]

\* an exception leaves multilibify and main
Raise(exc_) ==
    /\ exc' = exc_
    /\ calls' = Unwound(exc_)
    /\ stack' = <<>>
    /\ pc' = "failed"

\* lines 60-74, the outermost call: given is the variants argument, None when unset
Begin(given) ==
    LET holder_file == args.source_manifest
        holder_dir == dirname(holder_file)
        e == IF given = None
             THEN ExtractVariants(holder_dir, 1, [holder |-> holder_object, store |-> <<>>, exc |-> ""])
             ELSE [holder |-> holder_object, store |-> given.v, exc |-> ""]
    IN /\ pc = "loaded"
       /\ IF e.exc # "" \/ ~Has(e.holder, "modules")
          THEN /\ Raise(IF e.exc # "" THEN e.exc ELSE "KeyError")
               /\ UNCHANGED <<holder_object, variants>>
          ELSE /\ stack' = <<Frame(e.holder, holder_file, holder_dir, [n \in DOMAIN e.store |-> n], 0, e.store)>>
               /\ holder_object' = e.holder
               /\ variants' = e.store
               /\ pc' = "multilibify"
               /\ UNCHANGED <<exc, calls>>
       /\ UNCHANGED <<args, files, base_dict, update_dict, merged_dict>>

\* line 123
Multilibify == Begin(None)

\* multilibify(holder_object, source_manifest, variants=given), called on its own
MultilibifyDirect == \E given \in DirectVariants : Begin(List(given))

\* lines 76-90: the body of the loop over orig_modules, up to the loop over the variants
NextModule ==
    /\ pc = "multilibify"
    /\ Top.n = 0
    /\ Top.i <= Len(Get(Top.holder, "modules").v)
    /\ LET f == Top
           entry == IF f.shared # 0 THEN SharedModule(variants, f.shared, f.i)
                    ELSE Get(f.holder, "modules").v[f.i]
           is_file == IsStr(entry)
           module_file == IF is_file THEN join(f.holder_dir, entry.v) ELSE f.holder_file
           loaded == IF is_file THEN load_dict_file(module_file) ELSE [exc |-> "", d |-> entry]
       IN IF loaded.exc # "" \/ ~Has(loaded.d, "sources")
          THEN /\ Raise(IF loaded.exc # "" THEN loaded.exc ELSE "KeyError")
               /\ UNCHANGED variants
          ELSE LET rewritten == RewriteSources(loaded.d, module_file, f.base_dir)
                   multilib == ModuleMultilib(rewritten, f.holder_multilib)
                   orig_module == Del(rewritten, MULTILIB_PROP)
                   in_place == f.shared # 0 /\ ~is_file
                   visited == [f EXCEPT !.module_file = module_file, !.in_place = in_place,
                                        !.orig_module = orig_module]
               IN /\ variants' = IF in_place THEN StoreModule(variants, f.shared, f.i, orig_module)
                                 ELSE variants
                  /\ stack' = [stack EXCEPT ![Len(stack)] =
                                  Decided(visited, IF in_place THEN Alias(f.shared, f.i) ELSE orig_module,
                                          multilib)]
                  /\ UNCHANGED <<pc, exc, calls>>
    /\ UNCHANGED <<args, files, holder_object, base_dict, update_dict, merged_dict>>

\* lines 92-97: the body of the loop over variants.items(), up to the recursive call
NextVariant ==
    /\ pc = "multilibify"
    /\ Top.n > 0
    /\ LET f == Top
           j == f.variants[f.n]
           v == variants[j].v
           props == variants[j].props
           orig_module == IF f.in_place THEN SharedModule(variants, f.shared, f.i) ELSE f.orig_module
       IN IF ~Has(orig_module, "name") THEN Raise("KeyError")
          ELSE LET new_module == NewModule(orig_module, v, props)
                   called == Frame(new_module, f.module_file, f.base_dir, NestedVariants(f.variants, j),
                                   IF SharesModules(orig_module, props) THEN j ELSE 0, variants)
               IN IF ~Has(new_module, "modules")
                  THEN /\ stack' = [stack EXCEPT ![Len(stack)] = Advance(Appended(f, new_module))]
                       /\ UNCHANGED <<pc, exc, calls>>
                  ELSE IF Len(stack) + 1 > RecursionLimit
                  THEN /\ exc' = "RecursionError"
                       /\ calls' = Append(calls, CallOf(called, Len(stack) + 1, "RecursionError", None))
                                   \o SubSeq(Unwound("RecursionError"), Len(calls) + 1, Len(calls) + Len(stack))
                       /\ stack' = <<>>
                       /\ pc' = "failed"
                  ELSE /\ stack' = Append(stack, called)
                       /\ UNCHANGED <<pc, exc, calls>>
    /\ UNCHANGED <<args, files, holder_object, variants, base_dict, update_dict, merged_dict>>

\* lines 99-100, and line 97 in the caller
Return ==
    /\ pc = "multilibify"
    /\ Top.n = 0
    /\ Top.i > Len(Get(Top.holder, "modules").v)
    /\ LET f == Top
           returned == Put(Del(f.holder, MULTILIB_PROP), "modules", List(f.modules))
       IN /\ calls' = Append(calls, CallOf(f, Len(stack), "", Resolve(returned, variants)))
          /\ IF Len(stack) = 1
             THEN /\ holder_object' = Resolve(returned, variants)
                  /\ stack' = <<>>
                  /\ pc' = "expanded"
             ELSE /\ stack' = [SubSeq(stack, 1, Len(stack) - 1) EXCEPT
                                  ![Len(stack) - 1] = Advance(Appended(@, returned))]
                  /\ UNCHANGED <<pc, holder_object>>
    /\ UNCHANGED <<args, files, variants, exc, base_dict, update_dict, merged_dict>>

\* lines 124-125, -u given
Uncleanup ==
    /\ pc = "expanded"
    /\ LET r == uncleanup(holder_object)
       IN /\ holder_object' = r.obj
          /\ exc' = r.exc
          /\ pc' = IF r.exc = "" THEN "filtered" ELSE "failed"
    /\ UNCHANGED <<args, files, variants, stack, calls, base_dict, update_dict, merged_dict>>

\* line 126, after line 123 when -u is not given and after line 125 when it is
Save ==
    /\ pc \in {"expanded", "filtered"}
    /\ \E target_manifest \in Targets :
          LET e == save_dict_file(holder_object, target_manifest)
          IN /\ files' = (abspath(target_manifest) :> IF e = "" THEN holder_object ELSE None) @@ files
             /\ exc' = e
             /\ pc' = IF e = "" THEN "saved" ELSE "failed"
    /\ UNCHANGED <<args, holder_object, variants, stack, calls, base_dict, update_dict, merged_dict>>

Next == Load \/ Multilibify \/ MultilibifyDirect \/ NextModule \/ NextVariant \/ Return \/ Uncleanup \/ Save

Spec == Init /\ [][Next]_vars

InitMerge ==
    /\ pc = "merge"
    /\ args = None /\ files = <<>> /\ holder_object = None /\ variants = <<>> /\ stack = <<>>
    /\ exc = "" /\ calls = <<>>
    /\ base_dict \in Documents
    /\ update_dict \in Documents
    /\ merged_dict = None

\* merged_dict = merge_dicts(base_dict, update_dict)
Merge ==
    /\ pc = "merge"
    /\ merged_dict' = merge_dicts(base_dict, update_dict)
    /\ pc' = "merged"
    /\ UNCHANGED <<args, files, holder_object, variants, stack, exc, calls, base_dict, update_dict>>

NextMerge == Merge

SpecMerge == InitMerge /\ [][NextMerge]_vars

(***************************************************************************)
(* The claims.                                                             *)
(***************************************************************************)
RECURSIVE IsMergeOf(_, _, _)
\* r is what the merge of update u into base b is said to be
IsMergeOf(r, b, u) ==
    /\ IsDict(r)
    /\ DOMAIN r.v = (DOMAIN b.v) \cup (DOMAIN u.v)
    /\ \A key \in DOMAIN r.v :
          IF ~Has(u, key) THEN Get(r, key) = Get(b, key)
          ELSE IF ~Has(b, key) THEN Get(r, key) = Get(u, key)
          ELSE IF IsDict(Get(b, key)) /\ IsDict(Get(u, key))
               THEN IsMergeOf(Get(r, key), Get(b, key), Get(u, key))
               ELSE Get(r, key) = Get(u, key)

\* C7: merge(base, update) has the keys of base and update together; a key of base alone
\* keeps base's value, a key of update alone takes update's, a key of both takes the
\* recursive merge when both values are mappings and update's value otherwise, a sequence
\* being replaced and never concatenated.
C7_MergeIsKeywiseUnion ==
    pc = "merged" => IsMergeOf(merged_dict, base_dict, update_dict)

\* a merge in which a mapping meets a mapping under "a" with a sequence replaced inside,
\* and a sequence of update replaces a sequence of base under "b"
C7_Witness ==
    /\ pc = "merged"
    /\ Has(base_dict, "a") /\ Has(update_dict, "a") /\ Has(base_dict, "b") /\ Has(update_dict, "b")
    /\ IsDict(Get(base_dict, "a")) /\ IsDict(Get(update_dict, "a"))
    /\ Has(Get(base_dict, "a"), "c") /\ Has(Get(update_dict, "a"), "c")
    /\ Get(Get(base_dict, "a"), "c") = List(<<Str(<<"1">>)>>)
    /\ Get(Get(update_dict, "a"), "c") = List(<<Str(<<"2">>)>>)
    /\ Get(Get(merged_dict, "a"), "c") = List(<<Str(<<"2">>)>>)
    /\ IsList(Get(base_dict, "b")) /\ IsList(Get(update_dict, "b"))
    /\ Get(base_dict, "b") # Get(update_dict, "b")

\* the suffix a variant adds to a module's name
Suffix(v) == IF v = "compat" THEN <<"-32bit">> ELSE <<>>

\* the calls of multilibify that returned
Returned == { calls[n] : n \in { x \in DOMAIN calls : calls[x].exc = "" } }

\* the modules sequence call c was given, and the one it returned
In(c) == Get(c.holder, "modules").v
Out(c) == Get(c.out, "modules").v

\* the file the i-th module of call c comes from, and the module itself
FileOf(c, i) == IF IsStr(In(c)[i]) THEN join(dirname(c.holder_file), In(c)[i].v) ELSE c.holder_file
ModuleOf(c, i) == IF IsStr(In(c)[i]) THEN files[abspath(FileOf(c, i))] ELSE In(c)[i]

\* the effective flag of module m in holder h: its own x-multilib if present, otherwise
\* the holder's, otherwise true
IsEnabled(m, h) ==
    Truthy(IF Has(m, "x-multilib") THEN Get(m, "x-multilib")
           ELSE IF Has(h, "x-multilib") THEN Get(h, "x-multilib") ELSE Bool(TRUE))

Enabled(c, i) == IsEnabled(ModuleOf(c, i), c.holder)

\* the number of output modules said to stand for the i-th module of call c
Count(c, i) == IF Enabled(c, i) THEN Len(c.variants) ELSE 1

RECURSIVE Before(_, _)
\* the number of output modules said to stand before those of the i-th module
Before(c, i) == IF i = 1 THEN 0 ELSE Before(c, i - 1) + Count(c, i - 1)

\* every input module has its run of Count output modules, the runs in input order
RunsInOrder(c) == Len(Out(c)) = Before(c, Len(In(c)) + 1)

RECURSIVE Carries(_, _, _)
\* doc has every key of override document upd outside `except`, with the value of upd,
\* mappings on both sides having been combined key by key
Carries(doc, upd, except) ==
    \A key \in (DOMAIN upd.v) \ except :
        /\ Has(doc, key)
        /\ IF IsDict(Get(upd, key))
           THEN IsDict(Get(doc, key)) /\ Carries(Get(doc, key), Get(upd, key), {})
           ELSE Get(doc, key) = Get(upd, key)

\* the n-th output module for the enabled i-th module of call c is the copy for the
\* n-th variant: named original_name + suffix, carrying the override's keys outside `except`
IsCopy(c, i, n, except) ==
    LET o == Out(c)[Before(c, i) + n]
    IN /\ IsDict(o)
       /\ Get(o, "name").v = Get(ModuleOf(c, i), "name").v \o Suffix(c.variants[n].v)
       /\ Carries(o, c.variants[n].props, except)

Expands(c, except) ==
    /\ RunsInOrder(c)
    /\ \A i \in DOMAIN In(c) :
          Enabled(c, i) => \A n \in DOMAIN c.variants : IsCopy(c, i, n, except)

\* C1 as stated: for every module of a holder whose effective flag is enabled and a
\* variant set of N variants, expand emits exactly N modules, adjacent and in variant
\* order, the i-th named original_name + suffix_i and carrying every key of its
\* variant's override document with the override's value; input order is preserved.
C1_CopiesCarryEveryOverrideKey ==
    \A c \in Returned : Expands(c, {})

\* C1 amended: the same, for every key of the override document other than name (set
\* to original_name + suffix), x-multilib (read and removed as the copy's holder-level
\* flag) and modules (replaced by the copy's own expanded sequence).
C1_CopiesCarryOverride ==
    \A c \in Returned : Expands(c, {"name", "x-multilib", "modules"})

\* the outermost call has returned two copies each of two enabled modules, the override
\* document of the second variant meeting keys of the module
C1_Witness ==
    /\ pc = "expanded"
    /\ \E c \in Returned :
          /\ c.depth = 1
          /\ Len(c.variants) = 2
          /\ Len(In(c)) = 2 /\ Len(Out(c)) = 4
          /\ Enabled(c, 1) /\ Enabled(c, 2)
          /\ Has(c.variants[2].props, "build-options")
          /\ Has(ModuleOf(c, 1), "build-options")
          /\ Get(Out(c)[2], "name").v = Get(ModuleOf(c, 1), "name").v \o <<"-32bit">>


\* source `out` designates from directory base_dir the file `src` designates from the
\* directory of `file`, and is `src` otherwise
SameSource(out, src, file, base_dir) ==
    /\ DOMAIN out.v = DOMAIN src.v
    /\ \A key \in DOMAIN src.v \ {"path"} : Get(out, key) = Get(src, key)
    /\ Has(src, "path") =>
          abspath(join(base_dir, Get(out, "path").v)) = abspath(join(dirname(file), Get(src, "path").v))

\* module o is module m of `file` with nothing merged in and nothing renamed: the keys
\* of m but x-multilib, with the values of m, the sources designating the same files
IsKept(o, m, file, base_dir) ==
    /\ IsDict(o)
    /\ DOMAIN o.v = DOMAIN m.v \ {"x-multilib"}
    /\ \A key \in DOMAIN o.v \ {"sources"} : Get(o, key) = Get(m, key)
    /\ Len(Get(o, "sources").v) = Len(Get(m, "sources").v)
    /\ \A n \in DOMAIN Get(m, "sources").v :
          SameSource(Get(o, "sources").v[n], Get(m, "sources").v[n], file, base_dir)

\* every module of call c whose effective flag is false has one output module, itself
KeepsOptedOut(c) ==
    /\ RunsInOrder(c)
    /\ \A i \in DOMAIN In(c) :
          ~Enabled(c, i) => IsKept(Out(c)[Before(c, i) + 1], ModuleOf(c, i), FileOf(c, i), c.base_dir)

\* C2: for every module whose effective flag is false, its own x-multilib taking
\* precedence over the holder's and the holder's being used only when it has none, expand
\* emits exactly one output module: same name, no override merged in, no suffix added,
\* its sources[].path values rewritten.
C2_OptedOutEmittedOnce ==
    \A c \in Returned : KeepsOptedOut(c)

\* a holder that asks for multilib has returned sub/legacy.json, which opts out, once and
\* with its path rewritten, before the two copies of its second module
C2_Witness ==
    /\ pc = "expanded"
    /\ \E c \in Returned :
          /\ c.depth = 1 /\ Len(c.variants) = 2 /\ Len(In(c)) = 2
          /\ Has(c.holder, "x-multilib") /\ Truthy(Get(c.holder, "x-multilib"))
          /\ IsStr(In(c)[1]) /\ ~Enabled(c, 1) /\ Enabled(c, 2)
          /\ Len(Out(c)) = 3
          /\ Get(Out(c)[1], "name") = Str(<<"legacy">>)
          /\ Get(Get(Out(c)[1], "sources").v[1], "path") = Str(<<"sub", "l.c">>)


RECURSIVE Beneath(_)
\* the holder obj and every module mapping reachable from it through modules sequences
Beneath(obj) ==
    {obj} \cup
    (IF ~Has(obj, "modules") THEN {}
     ELSE UNION { Beneath(m) : m \in { x \in { Get(obj, "modules").v[n] : n \in DOMAIN Get(obj, "modules").v } : IsDict(x) } })

\* the sources of module m that have a path
PathSources(m) ==
    IF ~Has(m, "sources") THEN {}
    ELSE { src \in { Get(m, "sources").v[n] : n \in DOMAIN Get(m, "sources").v } : Has(src, "path") }

\* C3: in the document returned by expand, every sources[].path of every module at every
\* nesting depth (inline modules, modules of module files, nested modules of copies and of
\* opted-out modules alike) is relative to the directory of the top-level manifest: from
\* there it designates the file it designated where the source was written.
C3_PathsRelativeToTopManifest ==
    pc = "expanded" =>
        \A m \in Beneath(holder_object) : \A src \in PathSources(m) :
            abspath(join(dirname(args.source_manifest), Get(src, "path").v)) = Get(src, "file").v

\* C6: in the document returned by expand, no holder and no module mapping reachable
\* through modules sequences (the root, copies, opted-out modules and the modules beneath
\* either) has the key x-multilib.
C6_NoFlagInOutput ==
    pc = "expanded" => \A m \in Beneath(holder_object) : ~Has(m, "x-multilib")

\* C8: expand leaves every variant's override document as the outermost call received
\* it, whatever it rewrites, pops and replaces inside the copies it builds and expands.
C8_OverridesUnchanged ==
    pc = "expanded" =>
        /\ DOMAIN variants = DOMAIN calls[Len(calls)].variants
        /\ \A n \in DOMAIN variants : variants[n] = calls[Len(calls)].variants[n]

\* the greatest of a set of naturals, 0 for the empty set
Max(S) == IF S = {} THEN 0 ELSE CHOOSE x \in S : \A y \in S : y <= x

RECURSIVE Nesting(_, _)
\* the nesting depth of modules sequences in document doc of file `file`, module files
\* included
Nesting(doc, file) ==
    IF ~Has(doc, "modules") THEN 0
    ELSE 1 + Max({ IF IsStr(Get(doc, "modules").v[n])
                   THEN Nesting(files[abspath(join(dirname(file), Get(doc, "modules").v[n].v))],
                                join(dirname(file), Get(doc, "modules").v[n].v))
                   ELSE Nesting(Get(doc, "modules").v[n], file) : n \in DOMAIN Get(doc, "modules").v })

\* the nesting depth of the input: that of the manifest and that of the deepest override
\* document on top of it
InputNesting ==
    Nesting(files[abspath(args.source_manifest)], args.source_manifest)
    + Max({ Nesting(variants[n].props, args.source_manifest) : n \in DOMAIN variants })

\* C10: expand runs to completion or fails with an error of the input, never recursing
\* without end: its recursion depth never exceeds the nesting depth of modules sequences
\* in the input, an override document with modules of its own included.
C10_DepthBoundedByNesting ==
    /\ exc # "RecursionError"
    /\ pc = "multilibify" => Len(stack) <= InputNesting

RECURSIVE Filtered(_)
\* document doc with every cleanup sequence, at every depth of modules, replaced by its
\* entries that no pattern matches at their start, in their order
Filtered(doc) ==
    IF ~IsDict(doc) THEN doc
    ELSE Dict([key \in DOMAIN doc.v |->
                 IF key = "cleanup" THEN List(SelectSeq(doc.v[key].v, LAMBDA p : ~AnyMatch(p)))
                 ELSE IF key = "modules" THEN List([n \in DOMAIN doc.v[key].v |-> Filtered(doc.v[key].v[n])])
                 ELSE doc.v[key]])

\* C5: uncleanup, applied to any document produced by expand, completes without error
\* and replaces every cleanup sequence at every nesting depth of modules by its entries
\* that no pattern matches at the start, in their order, changing nothing else.
C5_FilterCompletes ==
    [][Uncleanup => (exc' = "" /\ pc' = "filtered" /\ holder_object' = Filtered(holder_object))]_vars


\* the outermost call, once it has returned
Outermost == calls[Len(calls)]

\* the holder call c returned is the one it was given but for x-multilib and modules
SameHolder(c) ==
    /\ DOMAIN c.out.v = DOMAIN c.holder.v \ {"x-multilib"}
    /\ \A key \in DOMAIN c.out.v \ {"modules"} : Get(c.out, key) = Get(c.holder, key)

\* C4 as stated: expanding a holder with an empty variant set returns the holder
\* unchanged but for the x-multilib flags removed and the source paths rewritten: the
\* output modules sequence has the length of the input and the same modules in the same
\* order, those whose effective flag is enabled included.
C4_EmptyVariantsKeepEveryModule ==
    \A c \in Returned :
        Len(c.variants) = 0 =>
            /\ SameHolder(c)
            /\ Len(Out(c)) = Len(In(c))
            /\ \A i \in DOMAIN In(c) : IsKept(Out(c)[i], ModuleOf(c, i), FileOf(c, i), c.base_dir)

\* C4 amended: expanding a holder with an empty variant set returns the holder unchanged
\* but for its x-multilib removed and its modules sequence, which holds the modules whose
\* effective flag is false and no other, in input order, each without its own x-multilib
\* and with its own sources[].path rewritten.
C4_EmptyVariantsKeepOptedOut ==
    \A c \in Returned :
        Len(c.variants) = 0 => SameHolder(c) /\ KeepsOptedOut(c)

\* a call with no variants has returned, of a module that opts out and a module that
\* does not, the first alone
C4_Witness ==
    /\ pc = "expanded"
    /\ Len(Outermost.variants) = 0
    /\ Len(In(Outermost)) = 2 /\ Len(Out(Outermost)) = 1
    /\ ~Enabled(Outermost, 1) /\ Enabled(Outermost, 2)
    /\ Get(Out(Outermost)[1], "name") = Get(ModuleOf(Outermost, 1), "name")


\* the file of entry `entry` of the modules sequence of a holder of `file`, and the module
EntryFile(entry, file) == IF IsStr(entry) THEN join(dirname(file), entry.v) ELSE file
EntryModule(entry, file) == IF IsStr(entry) THEN files[abspath(EntryFile(entry, file))] ELSE entry

RECURSIVE NarrowedTo(_, _, _, _, _)
\* beneath holder h of `file`, returned as o, every module whose effective flag is enabled
\* stands once, in its place, named nested_name + suffix of v and carrying the override
\* document props of v, and so beneath it; beneath a module that opts out likewise
NarrowedTo(h, file, o, v, props) ==
    LET ins == Get(h, "modules").v
        outs == Get(o, "modules").v
    IN /\ Len(outs) = Len(ins)
       /\ \A i \in DOMAIN ins :
             LET m == EntryModule(ins[i], file)
                 copy == merge_dicts(Del(m, "x-multilib"), props)
             IN IF IsEnabled(m, h)
                THEN /\ IsDict(outs[i])
                     /\ Get(outs[i], "name").v = Get(m, "name").v \o Suffix(v)
                     /\ Carries(outs[i], props, {"name", "x-multilib", "modules"})
                     /\ Has(copy, "modules") => NarrowedTo(copy, EntryFile(ins[i], file), outs[i], v, props)
                ELSE (IsDict(outs[i]) /\ Has(m, "modules")) =>
                         NarrowedTo(m, EntryFile(ins[i], file), outs[i], v, props)

\* C9: when the copy of a module for variant v has nested modules, every nested module
\* beneath the copy whose effective flag is enabled appears exactly once in it, named
\* nested_name + suffix of v and merged with the override of v only, so that a module
\* nested at any depth has one copy for each variant of the outermost call.
C9_NestedModulesNarrowed ==
    pc = "expanded" =>
        /\ RunsInOrder(Outermost)
        /\ \A i \in DOMAIN In(Outermost) : \A n \in DOMAIN Outermost.variants :
              LET props == Outermost.variants[n].props
                  copy == merge_dicts(Del(ModuleOf(Outermost, i), "x-multilib"), props)
              IN (Enabled(Outermost, i) /\ Has(copy, "modules")) =>
                     NarrowedTo(copy, FileOf(Outermost, i), Out(Outermost)[Before(Outermost, i) + n],
                                Outermost.variants[n].v, props)

====
